---------------------------- MODULE Spec2Model ----------------------------
(***************************************************************************)
(* Model of the group60 negotiation agent:                                 *)
(*   - TemplateAgent (template_agent.py): the notifyChange handlers, the   *)
(*     phased accept/offer policy of my_turn and its helpers;              *)
(*   - FinalPhasePlan (utils/final_phase_plan.py): the greedy planner gca  *)
(*     and next_bid.                                                       *)
(*                                                                         *)
(* Numbers.  Utilities, probabilities and the deadline progress t are      *)
(* multiples of 1/20, written as the integer numerator (0.95 is 19).       *)
(* Derived quantities are exact: rationals [n, d] in the agent, numbers    *)
(* n / 20^k in the planner (float rounding is not modelled).  A float      *)
(* literal that is compared with a Decimal utility is a pair <<v, e>>: v   *)
(* its decimal value in twentieths and e the sign of (float - decimal      *)
(* value), because Decimal/float comparison is exact in Python.            *)
(***************************************************************************)
EXTENDS Integers, Sequences, FiniteSets, TLC

VARIABLES
    \* ---- TemplateAgent ----
    started,            \* a Settings message has been processed
    terminated,         \* Finished has been processed
    profile,            \* self.profile: utility (twentieths) of each bid; <<>> is None
    reservation_value,  \* self.reservation_value (twentieths); NoValue is None
    last_received_bid,  \* self.last_received_bid; NoBid is None
    opponent_model,     \* self.opponent_model: [created, offers]
    other,              \* self.other: TRUE once an opponent action was seen
    clock,              \* last deadline progress read by my_turn (twentieths)
    phase,              \* branch of my_turn taken, if the last notification was YourTurn
    sent,               \* action the last notification handed to send_action
    raised,             \* exception that escaped the last notification, "none" if none
    drawn_max,          \* largest utility among the outcomes best_bid drew in the last
                        \* notification; NoValue if it was not called
    received,           \* proposals of the opponent Offers notified so far, in arrival order
    models,             \* number of OpponentModel instances constructed so far
    \* ---- FinalPhasePlan ----
    built,              \* a FinalPhasePlan instance exists
    all_bids,           \* self.all_bids: sequence of BidInfo [bid, u, p, selected]
    plan,               \* self.plan: sequence of BidInfo
    EU,                 \* self.EU
    bids_executed,      \* self.bids_executed
    rv_plan,            \* utility of the profile's reservation bid seen by gca (0 if none)
    budget,             \* the deadline handed to the last gca call
    returned,           \* proposals returned by next_bid so far, in order
    since_build,        \* proposals returned since the plan was last (re)built
    consumed,           \* the plan replaced by the last rebuild, what was returned from it, its EU
    EU_built,           \* self.EU as the last gca call left it
    perr                \* exception that escaped the last planner call, "none" if none

agentVars == <<started, terminated, profile, reservation_value, last_received_bid,
               opponent_model, other, clock, phase, sent, raised, drawn_max,
               received, models>>
plannerVars == <<built, all_bids, plan, EU, bids_executed, rv_plan, budget, returned,
                 since_build, consumed, EU_built, perr>>
vars == <<agentVars, plannerVars>>

-----------------------------------------------------------------------------
(* Exact rational arithmetic *)

RECURSIVE GCD(_, _)
GCD(a, b) == IF b = 0 THEN a ELSE GCD(b, a % b)

Abs(x) == IF x < 0 THEN 0 - x ELSE x

Norm(n, d) ==
    LET g == GCD(Abs(n), Abs(d))
        s == IF d < 0 THEN 0 - 1 ELSE 1
    IN  [n |-> s * (n \div g), d |-> s * (d \div g)]

Rat(n, d) == Norm(n, d)
Tw(k) == Rat(k, 20)                      \* k twentieths
RZero == [n |-> 0, d |-> 1]
ROne == [n |-> 1, d |-> 1]

LCM(a, b) == (a \div GCD(a, b)) * b

RAdd(x, y) ==
    LET l == LCM(x.d, y.d) IN Norm(x.n * (l \div x.d) + y.n * (l \div y.d), l)
RSub(x, y) ==
    LET l == LCM(x.d, y.d) IN Norm(x.n * (l \div x.d) - y.n * (l \div y.d), l)
RMul(x, y) ==
    LET a == Norm(x.n, y.d)
        b == Norm(y.n, x.d)
    IN  [n |-> a.n * b.n, d |-> a.d * b.d]
RDiv(x, y) == RMul(x, Norm(y.d, y.n))        \* y # 0
RLt(x, y) ==
    LET l == LCM(x.d, y.d) IN x.n * (l \div x.d) < y.n * (l \div y.d)
RLe(x, y) == ~RLt(y, x)
RMax(x, y) == IF RLt(x, y) THEN y ELSE x

-----------------------------------------------------------------------------
(* Exact arithmetic of the planner: the number n / 20^k is [n, k], with n   *)
(* not divisible by 20 unless k = 0, so that equal numbers are equal records. *)

RECURSIVE Pow20(_)
Pow20(j) == IF j = 0 THEN 1 ELSE 20 * Pow20(j - 1)

RECURSIVE FNorm(_, _)
FNorm(n, k) == IF k > 0 /\ n % 20 = 0 THEN FNorm(n \div 20, k - 1) ELSE [n |-> n, k |-> k]

FTw(v) == FNorm(v, 1)                    \* v twentieths
FZero == [n |-> 0, k |-> 0]
FOne == [n |-> 1, k |-> 0]

FAdd(x, y) ==
    IF x.k >= y.k THEN FNorm(x.n + y.n * Pow20(x.k - y.k), x.k)
    ELSE FNorm(x.n * Pow20(y.k - x.k) + y.n, y.k)
FSub(x, y) ==
    IF x.k >= y.k THEN FNorm(x.n - y.n * Pow20(x.k - y.k), x.k)
    ELSE FNorm(x.n * Pow20(y.k - x.k) - y.n, y.k)
FMul(x, y) == FNorm(x.n * y.n, x.k + y.k)
FLt(x, y) ==
    IF x.k >= y.k THEN x.n < y.n * Pow20(x.k - y.k)
    ELSE x.n * Pow20(y.k - x.k) < y.n
FLe(x, y) == ~FLt(y, x)

\* x / y for y = m / 20 with m in 1..20; the quotients that occur are of the
\* form n / 20^k (every 20 - p with p in PValues divides 400).
FDiv(x, y) ==
    LET m == y.n * Pow20(1 - y.k)
        j == CHOOSE i \in 0..1 : (x.n * Pow20(i + 1)) % m = 0
    IN  FNorm((x.n * Pow20(j + 1)) \div m, x.k + j)

-----------------------------------------------------------------------------
(* Inputs of the agent model *)

\* Bound on the opponent offers a behaviour records.
MaxOffers == 2

NoBid == 0
NoValue == 0 - 1

\* Utility profiles the Settings message may carry (one utility per bid of
\* the domain, in AllBidsList order).
Profiles ==
    { <<2, 6, 14, 19>>,
      <<0, 0, 0, 0>>,
      <<20, 16, 12, 2>>,
      <<2, 6, 12, 12>>,
      <<18, 17, 13, 10>>,
      <<0, 2, 6, 19>> }

\* Deadline progress values my_turn may read.
TimePoints == {0, 2, 3, 5, 8, 10, 12, 18, 19, 20}

\* Values OpponentModel.get_predicted_utility may return (twentieths).
PredValues == {0, 20}

Bids == 1..Len(profile)
getUtility(bid) == profile[bid]


-----------------------------------------------------------------------------
(* TemplateAgent: constants set by __init__ *)

initial_phase == 0
discussion_phase == 1
concession_phase == 2
\* self.phase_boundaries = [0.15, 0.4, 0.9], in twentieths (Python index i is i + 1 here)
phase_boundaries == <<3, 8, 18>>

\* Float literals compared with Decimal utilities: <<decimal value, sign of (float - value)>>.
Float_0_9 == [v |-> 400 * 18, e |-> 1]
Float_0_8 == [v |-> 400 * 16, e |-> 1]
Float_0_6 == [v |-> 400 * 12, e |-> 0 - 1]

\* A Decimal utility of k twentieths, in 1/8000 units.
Dec(k) == [v |-> 400 * k, e |-> 0]

\* x > y between Decimal and float values (exact in Python).
NumGt(x, y) == x.v > y.v \/ (x.v = y.v /\ x.e > y.e)

\* Python's max(a, b): a unless b > a.
PyMax(a, b) == IF NumGt(b, a) THEN b ELSE a

SetMax(S) == CHOOSE m \in S : \A x \in S : x <= m

-----------------------------------------------------------------------------
(* TemplateAgent: the policy helpers *)

\* PhaseOf with the first boundary compared by <= instead of <.
PhaseOf_InclusiveBoundary(t) ==
    IF t <= phase_boundaries[initial_phase + 1] THEN "learning"
    ELSE IF t < phase_boundaries[discussion_phase + 1] THEN "discussion"
    ELSE IF t < phase_boundaries[concession_phase + 1] THEN "concession"
    ELSE "terminal"

\* The branch of the if/elif chain of my_turn that progress t selects.
PhaseOf(t) ==
    IF t < phase_boundaries[initial_phase + 1] THEN "learning"
    ELSE IF t < phase_boundaries[discussion_phase + 1] THEN "discussion"
    ELSE IF t < phase_boundaries[concession_phase + 1] THEN "concession"
    ELSE "terminal"

accept_const(alpha, bid) ==
    IF bid = NoBid THEN FALSE ELSE NumGt(Dec(getUtility(bid)), alpha)

\* Atlas3Scenarios with u_CH taken as the reservation value, without the max.
Atlas3Scenarios_NoMax(bestOffered, reserve) ==
    LET f_omega_reserve == Tw(reserve)
        u_CH == f_omega_reserve
        u_HC == ROne
    IN  [u_CH |-> u_CH,
         u_HH |-> f_omega_reserve,
         u_HC |-> u_HC,
         u_CC |-> RAdd(RMul(Rat(1, 2), u_CH), RMul(Rat(1, 2), u_HC))]

\* The four scenario utilities of accept_Atlas3, for the best offered
\* utility and the reservation value (twentieths).
Atlas3Scenarios(bestOffered, reserve) ==
    LET f_omega_bestOffered == Tw(bestOffered)
        f_omega_reserve == Tw(reserve)
        u_CH == RMax(f_omega_reserve, f_omega_bestOffered)
        u_HC == ROne
    IN  [u_CH |-> u_CH,
         u_HH |-> f_omega_reserve,
         u_HC |-> u_HC,
         u_CC |-> RAdd(RMul(Rat(1, 2), u_CH), RMul(Rat(1, 2), u_HC))]

\* The exception the division (u_CH - u_HH) / (u_HC - u_CC) raises, if any:
\* Decimal x / 0 traps DivisionByZero, and 0 / 0 traps InvalidOperation.
Atlas3DivisionError(bestOffered, reserve) ==
    LET s == Atlas3Scenarios(bestOffered, reserve)
    IN  IF RSub(s.u_HC, s.u_CC) # RZero THEN "none"
        ELSE IF RSub(s.u_CH, s.u_HH) = RZero THEN "InvalidOperation"
        ELSE "DivisionByZero"

\* Atlas3Alpha with the weights q and 1 - q of E_u_final exchanged.
Atlas3Alpha_SwappedWeights(t, bestOffered, reserve) ==
    LET s == Atlas3Scenarios(bestOffered, reserve)
        q == RDiv(ROne, RAdd(ROne, RDiv(RSub(s.u_CH, s.u_HH), RSub(s.u_HC, s.u_CC))))
        E_u_final == RAdd(RMul(RSub(ROne, q), s.u_CH), RMul(q, s.u_CC))
    IN  RSub(ROne, RMul(Tw(t), RSub(ROne, E_u_final)))

\* alpha of accept_Atlas3 at progress t (twentieths); defined when u_HC # u_CC.
Atlas3Alpha(t, bestOffered, reserve) ==
    LET s == Atlas3Scenarios(bestOffered, reserve)
        q == RDiv(ROne, RAdd(ROne, RDiv(RSub(s.u_CH, s.u_HH), RSub(s.u_HC, s.u_CC))))
        E_u_final == RAdd(RMul(q, s.u_CH), RMul(RSub(ROne, q), s.u_CC))
    IN  RSub(ROne, RMul(Tw(t), RSub(ROne, E_u_final)))

\* accept_Atlas3(bid, t): [exc, value]; exc is the exception raised, "none" if it returns value.
accept_Atlas3(bid, t) ==
    IF ~opponent_model.created
    THEN [exc |-> "AttributeError", value |-> FALSE]
    ELSE LET best == SetMax({getUtility(opponent_model.offers[i]) :
                                i \in 1..Len(opponent_model.offers)})
             err == Atlas3DivisionError(best, reservation_value)
         IN  IF err # "none" THEN [exc |-> err, value |-> FALSE]
             ELSE [exc |-> "none",
                   value |-> RLt(Atlas3Alpha(t, best, reservation_value), Tw(getUtility(bid)))]

\* joint_util with the weight 0.8 - 0.3 t^2 on the agent's own utility.
joint_util_LowOwnWeight(t, pred, omega) ==
    (3200 - 3 * t * t) * getUtility(omega) + 4000 * pred[omega]

\* Joint utility of bid omega at progress t, in 1/80000 units:
\* (1.8 - 0.3 t^2) * u + predicted, where pred maps bids to predicted utility.
joint_util(t, pred, omega) == (7200 - 3 * t * t) * getUtility(omega) + 4000 * pred[omega]

\* The list random_bid_above_best_join_utility samples from.
JointFiltered(t, pred) ==
    LET f_omega_maxJoint == SetMax({joint_util(t, pred, b) : b \in Bids})
    IN  {b \in Bids : 4000 * getUtility(b) >= f_omega_maxJoint}

\* The runs of best_bid: the 500 draws hit some non-empty set S of bids; the
\* first drawn bid of maximal utility wins if that utility is > 0.  A run is
\* [bid, max]: the value returned and the largest utility drawn.
best_bid_draws ==
    UNION { LET m == SetMax({getUtility(b) : b \in S})
            IN  IF m > 0 THEN {[bid |-> b, max |-> m] : b \in {c \in S : getUtility(c) = m}}
                ELSE {[bid |-> NoBid, max |-> m]}
            : S \in (SUBSET Bids) \ {{}} }

\* The values best_bid can return.
best_bid == {r.bid : r \in best_bid_draws}

\* floor(t) of sample_bid_above_time_bound, in 1/8000 units.
TimeBound(t) ==
    PyMax([v |-> 400 * phase_boundaries[discussion_phase + 1]
                   - phase_boundaries[initial_phase + 1] * t * t, e |-> 0],
          PyMax(Dec(reservation_value), Float_0_6))

\* omegas_filtered of sample_bid_above_time_bound: range(0, size - 1) leaves
\* out the last bid of the list.
omegas_filtered(t) ==
    {omega \in 1..(Len(profile) - 1) : NumGt(Dec(getUtility(omega)), TimeBound(t))}

-----------------------------------------------------------------------------
(* TemplateAgent: my_turn *)

Sends(kind, bid) == [exc |-> "none", kind |-> kind, bid |-> bid, drawn |-> NoValue]
Raises(exc) == [exc |-> exc, kind |-> "none", bid |-> NoBid, drawn |-> NoValue]

\* What random_bid_above_best_join_utility(t) does, over the predictions
\* the opponent model may make: it raises when the filtered list is empty.
JointSampleOutcomes(t) ==
    UNION { IF JointFiltered(t, pred) = {}
            THEN {Raises("ValueError")}               \* sample([], k=1)
            ELSE {Sends("Offer", b) : b \in JointFiltered(t, pred)}
            : pred \in [Bids -> PredValues] }

\* What my_turn does at progress t: the action it hands to send_action, or
\* the exception that escapes it.
TurnOutcomes(t) ==
    CASE PhaseOf(t) = "learning" ->
            IF accept_const(Float_0_9, last_received_bid)
            THEN {Sends("Accept", last_received_bid)}
            ELSE {[Sends("Offer", r.bid) EXCEPT !.drawn = r.max] : r \in best_bid_draws}
      [] PhaseOf(t) = "discussion" ->
            IF accept_const(Float_0_8, last_received_bid)
            THEN {Sends("Accept", last_received_bid)}
            ELSE IF omegas_filtered(t) = {}
                 THEN {Raises("ValueError")}          \* sample([], k=1)
                 ELSE {Sends("Offer", b) : b \in omegas_filtered(t)}
      [] PhaseOf(t) = "concession" ->
            UNION { IF a.exc # "none" THEN {Raises(a.exc)}
                    ELSE IF a.value THEN {Sends("Accept", last_received_bid)}
                    ELSE JointSampleOutcomes(t)
                    : a \in {accept_Atlas3(last_received_bid, t)} }
      [] OTHER -> {Sends("null", NoBid)}              \* action is still None

Live == started /\ ~terminated /\ raised = "none"

\* notifyChange(Settings)
Settings(p, reservation_bid) ==
    /\ ~started /\ ~terminated
    /\ started' = TRUE
    /\ profile' = p
    /\ reservation_value' = IF reservation_bid # NoBid THEN p[reservation_bid] ELSE 0
    /\ UNCHANGED <<terminated, last_received_bid, opponent_model, other, clock,
                   phase, sent, raised, drawn_max, received, models, plannerVars>>

NothingSent == [kind |-> "none", bid |-> NoBid]

\* notifyChange(ActionDone) of an action of this agent: ignored.
ActionDoneOwn ==
    /\ Live
    /\ phase' = "none"
    /\ sent' = NothingSent
    /\ drawn_max' = NoValue
    /\ UNCHANGED <<started, terminated, profile, reservation_value, last_received_bid,
                   opponent_model, other, clock, raised, received, models, plannerVars>>

\* OpponentModel(domain): a model with an empty history.
OpponentModel == [created |-> TRUE, offers |-> <<>>]

\* OpponentModel.update(bid): the proposal is recorded at the end of the history.
update(model, bid) == [model EXCEPT !.offers = Append(@, bid)]

\* ActionDoneOffer without the test `self.opponent_model is None`: every
\* opponent Offer constructs a model.
ActionDoneOffer_AlwaysCreate(bid) ==
    /\ Live
    /\ Len(received) < MaxOffers
    /\ other' = TRUE
    /\ received' = Append(received, bid)
    /\ models' = models + 1
    /\ opponent_model' = update(OpponentModel, bid)
    /\ last_received_bid' = bid
    /\ phase' = "none"
    /\ sent' = NothingSent
    /\ drawn_max' = NoValue
    /\ UNCHANGED <<started, terminated, profile, reservation_value, clock,
                   raised, plannerVars>>

\* notifyChange(ActionDone) of an opponent Offer of bid: opponent_action.
ActionDoneOffer(bid) ==
    /\ Live
    /\ Len(received) < MaxOffers
    /\ other' = TRUE
    /\ received' = Append(received, bid)
    /\ models' = IF ~opponent_model.created THEN models + 1 ELSE models
    /\ opponent_model' = update(IF ~opponent_model.created THEN OpponentModel
                                                          ELSE opponent_model, bid)
    /\ last_received_bid' = bid
    /\ phase' = "none"
    /\ sent' = NothingSent
    /\ drawn_max' = NoValue
    /\ UNCHANGED <<started, terminated, profile, reservation_value, clock,
                   raised, plannerVars>>

\* notifyChange(ActionDone) of an opponent action that is not an Offer.
ActionDoneOther ==
    /\ Live
    /\ other' = TRUE
    /\ phase' = "none"
    /\ sent' = NothingSent
    /\ drawn_max' = NoValue
    /\ UNCHANGED <<started, terminated, profile, reservation_value, last_received_bid,
                   opponent_model, clock, raised, received, models, plannerVars>>

\* notifyChange(YourTurn): my_turn reads the progress t and decides.
YourTurn ==
    /\ Live
    /\ \E t \in TimePoints :
         /\ t >= clock
         /\ \E o \in TurnOutcomes(t) :
              /\ clock' = t
              /\ phase' = PhaseOf(t)
              /\ raised' = o.exc
              /\ sent' = [kind |-> o.kind, bid |-> o.bid]
              /\ drawn_max' = o.drawn
    /\ UNCHANGED <<started, terminated, profile, reservation_value, last_received_bid,
                   opponent_model, other, received, models, plannerVars>>

\* notifyChange(Finished): save_data and terminate.
Finished ==
    /\ started /\ ~terminated
    /\ terminated' = TRUE
    /\ phase' = "none"
    /\ sent' = NothingSent
    /\ drawn_max' = NoValue
    /\ UNCHANGED <<started, profile, reservation_value, last_received_bid,
                   opponent_model, other, clock, raised, received, models, plannerVars>>

-----------------------------------------------------------------------------
(* FinalPhasePlan *)

\* Bounds on the candidate list and on the budget handed to the constructor.
MaxCands == 3
MaxDeadline == 2

\* Agent-utilities u and acceptance probabilities p of the candidates (twentieths).
UValues == {6, 12, 18}
PValues == {0, 4, 16, 19, 20}
\* Utility of the reservation bid seen by gca (0 when there is none).
RvValues == {0, 12}

\* BidInfo(bid, u, p): selected starts False.
BidInfo(bid, u, p) == [bid |-> bid, u |-> u, p |-> p, selected |-> FALSE]

\* BidInfo.payoff
payoff(b) == FMul(FTw(b.u), FTw(b.p))

\* The lists sensible_bids_ordered can return: distinct proposals (named by
\* their position), sorted by decreasing u.
CandidateLists ==
    UNION { { [i \in 1..n |-> BidInfo(i, us[i], ps[i])] :
                us \in {f \in [1..n -> UValues] : \A i \in 1..(n - 1) : f[i] >= f[i + 1]},
                ps \in [1..n -> PValues] }
            : n \in 0..MaxCands }

\* GcaScan comparing EU_cur with EU instead of best_EU: the last improving
\* candidate wins, not the best one.
RECURSIVE GcaScan_LastImproving(_, _, _, _, _, _, _)
GcaScan_LastImproving(bids, k, EUc, EU_suf, p_pref, best_EU, best_EU_bid) ==
    IF k > Len(bids) THEN [best_EU |-> best_EU, best_EU_bid |-> best_EU_bid]
    ELSE LET bid == bids[k]
         IN  IF bid.selected
             THEN GcaScan_LastImproving(bids, k + 1, EUc,
                          FSub(EU_suf, FMul(FMul(p_pref, FTw(bid.p)), FTw(bid.u))),
                          FMul(p_pref, FSub(FOne, FTw(bid.p))),
                          best_EU, best_EU_bid)
             ELSE LET EU_cur == FSub(FAdd(EUc, FMul(FMul(p_pref, FTw(bid.p)), FTw(bid.u))),
                                     FMul(FTw(bid.p), EU_suf))
                  IN  IF FLt(EUc, EU_cur)
                      THEN GcaScan_LastImproving(bids, k + 1, EUc, EU_suf, p_pref, EU_cur, k)
                      ELSE GcaScan_LastImproving(bids, k + 1, EUc, EU_suf, p_pref,
                                                 best_EU, best_EU_bid)

\* One pass of the inner for-loop of gca over bids[k..], with the running
\* EU_suf, p_pref, best_EU and best_EU_bid (a position, 0 for None).
RECURSIVE GcaScan(_, _, _, _, _, _, _)
GcaScan(bids, k, EUc, EU_suf, p_pref, best_EU, best_EU_bid) ==
    IF k > Len(bids) THEN [best_EU |-> best_EU, best_EU_bid |-> best_EU_bid]
    ELSE LET bid == bids[k]
         IN  IF bid.selected
             THEN GcaScan(bids, k + 1, EUc,
                          FSub(EU_suf, FMul(FMul(p_pref, FTw(bid.p)), FTw(bid.u))),
                          FMul(p_pref, FSub(FOne, FTw(bid.p))),
                          best_EU, best_EU_bid)
             ELSE LET EU_cur == FSub(FAdd(EUc, FMul(FMul(p_pref, FTw(bid.p)), FTw(bid.u))),
                                     FMul(FTw(bid.p), EU_suf))
                  IN  IF FLt(best_EU, EU_cur)
                      THEN GcaScan(bids, k + 1, EUc, EU_suf, p_pref, EU_cur, k)
                      ELSE GcaScan(bids, k + 1, EUc, EU_suf, p_pref, best_EU, best_EU_bid)

\* GcaLoop without the bound range(deadline): it runs until no bid improves EU.
RECURSIVE GcaLoop_Unbounded(_, _, _, _)
GcaLoop_Unbounded(bids, EUc, i, deadline) ==
    LET r == GcaScan(bids, 1, EUc, EUc, FOne, EUc, 0)
    IN  IF r.best_EU = EUc
        THEN [all_bids |-> bids, EU |-> EUc]
        ELSE GcaLoop_Unbounded([bids EXCEPT ![r.best_EU_bid].selected = TRUE],
                               r.best_EU, i + 1, deadline)

\* The outer loop of gca from iteration i: [all_bids, EU] when it ends.
RECURSIVE GcaLoop(_, _, _, _)
GcaLoop(bids, EUc, i, deadline) ==
    IF i >= deadline THEN [all_bids |-> bids, EU |-> EUc]
    ELSE LET r == GcaScan(bids, 1, EUc, EUc, FOne, EUc, 0)
         IN  IF r.best_EU = EUc
             THEN [all_bids |-> bids, EU |-> EUc]                      \* break
             ELSE GcaLoop([bids EXCEPT ![r.best_EU_bid].selected = TRUE],
                          r.best_EU, i + 1, deadline)

Unselected(bids) == SelectSeq(bids, LAMBDA b : ~b.selected)
Selected(bids) == SelectSeq(bids, LAMBDA b : b.selected)

\* GcaCandidates without the filter on selected.
GcaCandidates_Unfiltered(bids) == bids

\* The bids gca works on: self.all_bids without the bids selected earlier.
GcaCandidates(bids) == Unselected(bids)

\* gca(deadline) on self.all_bids = bids with reservation utility rv:
\* the new all_bids, plan, EU and bids_executed.
gca(bids, rv, deadline) ==
    LET r == GcaLoop(GcaCandidates(bids), FTw(rv), 0, deadline)
    IN  [all_bids |-> r.all_bids, plan |-> Selected(r.all_bids), EU |-> r.EU,
         bids_executed |-> 0]

\* EU_after without the division by 1 - p.
EU_after_NoRescale(EUc, nb) == FSub(EUc, payoff(nb))

\* self.EU after next_bid has offered the plan entry nb.
EU_after(EUc, nb) == FDiv(FSub(EUc, payoff(nb)), FSub(FOne, FTw(nb.p)))

\* Rebuild with a 2-turn budget instead of the 1-turn one.
Rebuild_TwoTurns(bids, rv) == gca(bids, rv, 2)

\* The rebuild self.gca(1) of next_bid.
Rebuild(bids, rv) == gca(bids, rv, 1)

\* FinalPhasePlan(profile, opponent_model, bids_left, logger)
Construct(cands, rv, bids_left) ==
    /\ ~built
    /\ \E g \in {gca(cands, rv, bids_left)} :
           /\ all_bids' = g.all_bids
           /\ plan' = g.plan
           /\ EU' = g.EU
           /\ EU_built' = g.EU
           /\ bids_executed' = g.bids_executed
    /\ built' = TRUE
    /\ rv_plan' = rv
    /\ budget' = bids_left
    /\ perr' = "none"
    /\ UNCHANGED <<returned, since_build, consumed, agentVars>>

\* next_bid(): plan[bids_executed] raises IndexError past the end of the
\* plan; the division raises ZeroDivisionError after the cursor has moved.
next_bid ==
    /\ built
    /\ IF bids_executed >= Len(plan)
       THEN /\ perr' = "IndexError"
            /\ UNCHANGED <<all_bids, plan, EU, bids_executed, budget, returned,
                           since_build, consumed, EU_built>>
       ELSE LET nb == plan[bids_executed + 1]
                executed == bids_executed + 1
            IN  IF FSub(FOne, FTw(nb.p)) = FZero
                THEN /\ perr' = "ZeroDivisionError"
                     /\ bids_executed' = executed
                     /\ UNCHANGED <<all_bids, plan, EU, budget, returned, since_build,
                                    consumed, EU_built>>
                ELSE /\ perr' = "none"
                     /\ returned' = Append(returned, nb.bid)
                     /\ IF executed = Len(plan)
                        THEN \E g \in {Rebuild(all_bids, rv_plan)} :
                                 /\ all_bids' = g.all_bids
                                 /\ plan' = g.plan
                                 /\ EU' = g.EU
                                 /\ EU_built' = g.EU
                                 /\ bids_executed' = g.bids_executed
                                 /\ budget' = 1
                                 /\ since_build' = <<>>
                                 /\ consumed' = [plan |-> [i \in 1..Len(plan) |-> plan[i].bid],
                                                 returned |-> Append(since_build, nb.bid),
                                                 EU |-> EU_built]
                        ELSE /\ EU' = EU_after(EU, nb)
                             /\ bids_executed' = executed
                             /\ since_build' = Append(since_build, nb.bid)
                             /\ UNCHANGED <<all_bids, plan, budget, consumed, EU_built>>
    /\ UNCHANGED <<built, rv_plan, agentVars>>

-----------------------------------------------------------------------------
(* Specifications *)

AgentInit ==
    /\ started = FALSE
    /\ terminated = FALSE
    /\ profile = <<>>
    /\ reservation_value = NoValue
    /\ last_received_bid = NoBid
    /\ opponent_model = [created |-> FALSE, offers |-> <<>>]
    /\ other = FALSE
    /\ clock = 0
    /\ phase = "none"
    /\ sent = NothingSent
    /\ raised = "none"
    /\ drawn_max = NoValue
    /\ received = <<>>
    /\ models = 0

PlannerIdle ==
    /\ built = FALSE
    /\ all_bids = <<>>
    /\ plan = <<>>
    /\ EU = FZero
    /\ bids_executed = 0
    /\ rv_plan = 0
    /\ budget = 0
    /\ returned = <<>>
    /\ since_build = <<>>
    /\ consumed = [plan |-> <<>>, returned |-> <<>>, EU |-> FZero]
    /\ EU_built = FZero
    /\ perr = "none"

Init == AgentInit /\ PlannerIdle

Next ==
    \/ /\ ~started
       /\ \E p \in Profiles : \E rb \in {NoBid} \cup (1..Len(p)) : Settings(p, rb)
    \/ ActionDoneOwn
    \/ \E b \in Bids : ActionDoneOffer(b)
    \/ ActionDoneOther
    \/ YourTurn
    \/ Finished

Spec == Init /\ [][Next]_vars

PlannerNext ==
    \/ /\ ~built
       /\ \E cands \in CandidateLists, rv \in RvValues, bids_left \in 1..MaxDeadline :
            Construct(cands, rv, bids_left)
    \/ next_bid

PlannerSpec == Init /\ [][PlannerNext]_vars

-----------------------------------------------------------------------------
(* Properties of the agent (checked under Spec) *)

TurnDone == phase # "none"

BestOffered ==
    SetMax({getUtility(opponent_model.offers[i]) : i \in 1..Len(opponent_model.offers)})

\* C1: every turn sends exactly one action, an Accept or an Offer of a
\* proposal; it never sends a null action and never raises.
C1_TurnSendsAcceptOrOffer ==
    TurnDone => /\ raised = "none"
                /\ sent.kind \in {"Accept", "Offer"}
                /\ sent.bid # NoBid

\* C2: in the terminal region (t >= 0.9) the turn's offer comes from an
\* OfferPlanner that has been built.
C2_TerminalOfferFromPlanner ==
    (TurnDone /\ clock >= 18) => /\ built
                                 /\ sent.kind = "Offer"
                                 /\ sent.bid # NoBid

\* The phase the boundaries [0.15, 0.40, 0.90] assign to t: the smallest i
\* with t < b_i, terminal if there is none.
ClaimedPhase(t) ==
    LET b == <<3, 8, 18>>
        names == <<"learning", "discussion", "concession">>
        below == {i \in 1..3 : t < b[i]}
    IN  IF below = {} THEN "terminal"
        ELSE names[CHOOSE i \in below : \A j \in below : i <= j]

\* C3: the branch my_turn takes is the phase that t and the boundaries
\* determine, whatever the opponent history and the earlier turns; t = 0.10
\* is learning, 0.25 discussion, 0.60 concession and 0.95 terminal.
C3_PhaseIsFunctionOfProgress ==
    TurnDone => /\ phase = ClaimedPhase(clock)
                /\ (clock = 2 => phase = "learning")
                /\ (clock = 5 => phase = "discussion")
                /\ (clock = 12 => phase = "concession")
                /\ (clock = 19 => phase = "terminal")

\* A turn on a phase boundary, taken after opponent offers and an earlier turn's time.
C3_Witness ==
    /\ TurnDone
    /\ clock = 3
    /\ phase = "discussion"
    /\ Len(opponent_model.offers) = 2

\* C5: when U_HC = U_CC at a concession-phase turn, accept_Atlas3 takes
\* q = 1 and decides; the division by zero does not escape.
C5_EqualScenariosDecide ==
    (/\ TurnDone
     /\ phase = "concession"
     /\ opponent_model.created
     /\ LET s == Atlas3Scenarios(BestOffered, reservation_value)
        IN  s.u_HC = s.u_CC)
    => raised \notin {"DivisionByZero", "InvalidOperation"}

\* The bids of maximal joint utility under prediction pred.
ArgMaxJoint(t, pred) ==
    {b \in Bids : \A c \in Bids : joint_util(t, pred, c) <= joint_util(t, pred, b)}

\* C6: when the joint-utility sampler's filtered set is empty, the turn
\* offers the proposal that achieves J_max(t) instead of failing.
C6_EmptyJointFilterFallsBack ==
    (/\ TurnDone
     /\ phase = "concession"
     /\ opponent_model.created
     /\ LET a == accept_Atlas3(last_received_bid, clock)
        IN  a.exc = "none" /\ ~a.value
     /\ \A pred \in [Bids -> PredValues] : JointFiltered(clock, pred) = {})
    => /\ raised = "none"
       /\ sent.kind = "Offer"
       /\ \E pred \in [Bids -> PredValues] : sent.bid \in ArgMaxJoint(clock, pred)

\* C7: in the discussion phase, when no outcome of the outcome space has
\* agent-utility above floor(t), the turn does not raise and offers the best
\* outcome by agent-utility.
C7_EmptyFloorSetFallsBack ==
    (/\ TurnDone
     /\ phase = "discussion"
     /\ ~accept_const(Float_0_8, last_received_bid)
     /\ {b \in Bids : NumGt(Dec(getUtility(b)), TimeBound(clock))} = {})
    => /\ raised = "none"
       /\ sent.kind = "Offer"
       /\ sent.bid \in {b \in Bids : \A c \in Bids : getUtility(c) <= getUtility(b)}

\* The case of the acceptance example of C9: a concession-phase turn at
\* t = 0.5 with U_reserve = 0.3 and U_best = 0.7.
C9_Case ==
    /\ TurnDone
    /\ phase = "concession"
    /\ clock = 10
    /\ opponent_model.created
    /\ reservation_value = 6
    /\ BestOffered = 14

\* What accept_Atlas3 decides at t = 0.5 for the bids of utility 0.95 and 0.1.
C9_Decisions ==
    \A b \in Bids :
        /\ getUtility(b) = 19 => accept_Atlas3(b, 10) = [exc |-> "none", value |-> TRUE]
        /\ getUtility(b) = 2 => accept_Atlas3(b, 10) = [exc |-> "none", value |-> FALSE]

\* C9 as stated: alpha(0.5) lies strictly between 0.3 and 0.7, utility 0.95
\* is accepted and utility 0.1 is rejected.
C9_AlphaBetweenReserveAndBest ==
    C9_Case => /\ RLt(Tw(6), Atlas3Alpha(10, BestOffered, reservation_value))
               /\ RLt(Atlas3Alpha(10, BestOffered, reservation_value), Tw(14))
               /\ C9_Decisions

\* C9 as amended: alpha(0.5) = 199/220 (about 0.9045), strictly between 0.7
\* and 1; utility 0.95 is accepted and utility 0.1 is rejected.
C9_AlphaAboveBest ==
    C9_Case => /\ Atlas3Alpha(10, BestOffered, reservation_value) = Rat(199, 220)
               /\ RLt(Tw(14), Atlas3Alpha(10, BestOffered, reservation_value))
               /\ RLt(Atlas3Alpha(10, BestOffered, reservation_value), ROne)
               /\ C9_Decisions

\* The C9 case in a domain that has bids of utility 0.95 and 0.1.
C9_Witness ==
    /\ C9_Case
    /\ \E b \in Bids : getUtility(b) = 19
    /\ \E b \in Bids : getUtility(b) = 2

\* The fixed acceptance threshold of the phase, as a decimal value.
ClaimedThreshold(ph) == IF ph = "learning" THEN Dec(18) ELSE Dec(16)

\* The Accept decision C11 states for the phase of the last turn.
C11_ShouldAccept ==
    /\ last_received_bid # NoBid
    /\ NumGt(Dec(getUtility(last_received_bid)), ClaimedThreshold(phase))

\* C11: a learning-phase turn accepts iff a proposal was received and its
\* utility is > 0.9, a discussion-phase turn iff it is > 0.8; otherwise the
\* turn yields an Offer; the accepted proposal is the last received one.
C11_FixedThresholdAccept ==
    (TurnDone /\ phase \in {"learning", "discussion"}) =>
        /\ (sent.kind = "Accept") <=> C11_ShouldAccept
        /\ sent.kind = "Accept" => sent.bid = last_received_bid
        /\ sent.kind \in {"Accept", "Offer"}

\* The last element of a non-empty history, NoBid for the empty one.
LastOf(h) == IF h = <<>> THEN NoBid ELSE h[Len(h)]

\* C12 (state part): the opponent model exists iff an opponent Offer has
\* arrived and only one instance is ever constructed; its history is the
\* arrived proposals, one entry per Offer, in arrival order; and
\* last_received_bid is the proposal of the most recent opponent Offer.
C12_ModelFollowsOffers ==
    /\ opponent_model.created <=> received # <<>>
    /\ models = IF received = <<>> THEN 0 ELSE 1
    /\ opponent_model.offers = received
    /\ last_received_bid = LastOf(received)

\* C12: the state part always holds, and an ActionDone of this agent or of
\* an opponent action that is not an Offer leaves the opponent model and
\* last_received_bid unchanged.
C12_OpponentModelLifecycle ==
    /\ []C12_ModelFollowsOffers
    /\ [][(ActionDoneOwn \/ ActionDoneOther)
            => UNCHANGED <<opponent_model, last_received_bid>>]_vars

\* Two opponent Offers of different proposals have arrived and were recorded.
C12_Witness ==
    /\ Len(received) = 2
    /\ received[1] # received[2]
    /\ opponent_model.offers = received
    /\ other
    /\ phase = "none"

\* floor(t) = max(b1 - b0 t^2, max(reservation_value, 0.6)) in 1/8000 units,
\* with the boundaries and 0.6 taken as decimal values.
ClaimedFloor(t) ==
    LET quad == 400 * 8 - 3 * t * t
        rest == IF reservation_value > 12 THEN 400 * reservation_value ELSE 400 * 12
    IN  IF quad > rest THEN quad ELSE rest

\* The proposals the turn just taken could have offered.
Offerable == {o.bid : o \in {x \in TurnOutcomes(clock) : x.kind = "Offer"}}

\* C16: a discussion-phase turn that does not accept draws its offer from
\* exactly the outcomes of the outcome space whose utility exceeds floor(t):
\* each of them can be offered and no other outcome can.
C16_OfferDrawnFromFloorSet ==
    (TurnDone /\ phase = "discussion" /\ sent.kind # "Accept")
        => Offerable = {b \in Bids : 400 * getUtility(b) > ClaimedFloor(clock)}

\* C17: a learning-phase turn that does not accept sends an Offer whose
\* proposal is not null and has the largest agent-utility among the outcomes
\* best_bid drew, also when every drawn outcome has utility 0.
C17_BestBidOffersDrawnMaximum ==
    (TurnDone /\ phase = "learning" /\ sent.kind # "Accept")
        => /\ sent.kind = "Offer"
           /\ sent.bid # NoBid
           /\ getUtility(sent.bid) = drawn_max

\* C18: at a concession-phase turn, whenever accept_Atlas3 can compute alpha
\* (a non-empty opponent history and no division error), alpha(t) >=
\* max(U_reserve, U_best) for every t, not only the t of the turn; and the
\* turn does not yield Accept.
C18_ConcessionNeverAccepts ==
    (TurnDone /\ phase = "concession") =>
        /\ (opponent_model.created
            /\ Atlas3DivisionError(BestOffered, reservation_value) = "none")
           => \A t \in TimePoints :
                 RLe(RMax(Tw(reservation_value), Tw(BestOffered)),
                     Atlas3Alpha(t, BestOffered, reservation_value))
        /\ sent.kind # "Accept"

\* A concession-phase turn evaluated accept_Atlas3 on a last received
\* proposal of utility 0.95, the best of the history, and did not accept it.
C18_Witness ==
    /\ TurnDone
    /\ phase = "concession"
    /\ opponent_model.created
    /\ getUtility(last_received_bid) = 19
    /\ BestOffered = 19
    /\ reservation_value < 19
    /\ raised \notin {"AttributeError", "DivisionByZero", "InvalidOperation"}
    /\ sent.kind # "Accept"

\* Some outcome of the outcome space has positive agent-utility.
SomePositiveUtility == \E b \in Bids : getUtility(b) > 0

\* C19: if some outcome has agent-utility > 0 then, for every t and every
\* prediction of the opponent model, no outcome passes the filter
\* agent_utility >= J_max(t); a concession-phase turn that reaches the
\* sampler therefore draws from an empty list.
C19_JointFilterIsEmpty ==
    (TurnDone /\ phase = "concession" /\ SomePositiveUtility)
        => /\ \A t \in TimePoints : \A pred \in [Bids -> PredValues] :
                 JointFiltered(t, pred) = {}
           /\ sent.kind # "Offer"

\* A concession-phase turn, in an outcome space with positive utilities,
\* went past accept_Atlas3 and sampled from the empty list.
C19_Witness ==
    /\ TurnDone
    /\ phase = "concession"
    /\ SomePositiveUtility
    /\ opponent_model.created
    /\ raised = "ValueError"

\* max(reservation_value, 0.6) as a decimal value, in twentieths.
ReserveOrSixTenths == IF reservation_value > 12 THEN reservation_value ELSE 12

\* C21: with the default boundaries the discussion-phase floor is
\* non-increasing in t, and every proposal offered in the discussion phase
\* has agent-utility strictly greater than max(reservation_value, 0.6), hence
\* strictly greater than the reservation value.
C21_DiscussionOfferAboveReserve ==
    (TurnDone /\ phase = "discussion") =>
        /\ \A t1, t2 \in TimePoints :
              t1 <= t2 => ~NumGt(TimeBound(t2), TimeBound(t1))
        /\ sent.kind = "Offer" =>
              /\ getUtility(sent.bid) > ReserveOrSixTenths
              /\ getUtility(sent.bid) > reservation_value

-----------------------------------------------------------------------------
(* Properties of the planner (checked under PlannerSpec) *)

\* Expected utility of offering the BidInfo sequence s from position k on,
\* falling back to the reservation utility rv when nothing is accepted.
RECURSIVE SeqEU(_, _, _)
SeqEU(s, k, rv) ==
    IF k > Len(s) THEN FTw(rv)
    ELSE FAdd(payoff(s[k]), FMul(FSub(FOne, FTw(s[k].p)), SeqEU(s, k + 1, rv)))

\* The ordered sequences of at most n distinct positions of the list bids.
Orderings(bids, n) ==
    UNION { {f \in [1..k -> 1..Len(bids)] : \A i, j \in 1..k : i # j => f[i] # f[j]}
            : k \in 0..n }

\* The plan has just been built by gca and nothing of it was consumed.
JustBuilt == built /\ bids_executed = 0

\* C4: the plan built by gca(N), played in its stored order, has the EU the
\* planner computed, and that EU is >= the expected utility of every ordered
\* sequence of at most N distinct candidates.
C4_PlanIsOptimal ==
    JustBuilt =>
        /\ EU = SeqEU(plan, 1, rv_plan)
        /\ \A f \in Orderings(all_bids, budget) :
              FLe(SeqEU([i \in 1..Len(f) |-> all_bids[f[i]]], 1, rv_plan), EU)

\* The example of C4 has been planned: candidates (0.9, 0.2), (0.6, 0.8),
\* (0.3, 0.95), N = 2; the plan is the first two, in that order.
C4_Witness ==
    /\ JustBuilt
    /\ budget = 2
    /\ rv_plan = 0
    /\ Len(all_bids) = 3
    /\ <<all_bids[1].u, all_bids[1].p>> = <<18, 4>>
    /\ <<all_bids[2].u, all_bids[2].p>> = <<12, 16>>
    /\ <<all_bids[3].u, all_bids[3].p>> = <<6, 19>>
    /\ [i \in 1..Len(plan) |-> plan[i].bid] = <<1, 2>>
    /\ EU = FNorm(4512, 3)

\* C8: after next_bid has consumed a plan entry with p = 1 no error has
\* occurred and EU is exactly the consumed bid's payoff.
C8_CertainAcceptanceIsClamped ==
    (/\ built
     /\ bids_executed > 0
     /\ FTw(plan[bids_executed].p) = FOne)
    => /\ perr = "none"
       /\ EU = payoff(plan[bids_executed])

NoDuplicates(s) == \A i, j \in 1..Len(s) : i # j => s[i] # s[j]

IsPrefix(s, t) == Len(s) <= Len(t) /\ \A i \in 1..Len(s) : s[i] = t[i]

\* C10: no proposal is returned twice; the proposals returned since the last
\* (re)build are the plan's entries so far, in plan order; and a plan that a
\* rebuild replaced had every entry returned exactly once, in plan order.
C10_EachEntryReturnedOnce ==
    /\ NoDuplicates(returned)
    /\ IsPrefix(since_build, [i \in 1..Len(plan) |-> plan[i].bid])
    /\ perr = "none" => Len(since_build) = bids_executed
    /\ consumed.returned = consumed.plan

\* A two-entry plan was consumed, rebuilt with a 1-turn budget, and the
\* rebuilt plan consumed and rebuilt again.
C10_Witness ==
    /\ Len(consumed.plan) = 1
    /\ Len(returned) = 3
    /\ Len(plan) = 0

\* A rebuild has replaced a fully consumed plan.
Rebuilt == Len(consumed.plan) > 0

\* C13: the EU of the plan that the 1-turn rebuild of next_bid yields is no
\* greater than the EU gca had computed for the plan it replaced.
C13_RebuildDoesNotRaiseEU ==
    Rebuilt => FLe(EU_built, consumed.EU)

\* A two-entry plan was consumed and the rebuild found one more bid worth
\* offering, with a strictly smaller EU.
C13_Witness ==
    /\ Len(consumed.plan) = 2
    /\ Len(plan) = 1
    /\ FLt(EU_built, consumed.EU)

\* C14: whatever the candidate set and the number of earlier calls, no call
\* of next_bid raises: each finds a plan entry at the cursor and returns it.
C14_NextBidAlwaysReturns ==
    perr = "none"

\* C15: right after gca builds a plan (cursor 0), and after every next_bid
\* that does not rebuild (cursor inside the plan), EU is the expected utility
\* of offering the not-yet-offered plan entries in stored order, with the
\* reservation value as fallback.
C15_EUIsSuffixExpectation ==
    (built /\ (bids_executed = 0 \/ bids_executed < Len(plan)))
        => EU = SeqEU(plan, bids_executed + 1, rv_plan)

\* The first entry of a two-entry plan has been offered and EU was updated.
C15_Witness ==
    /\ built
    /\ perr = "none"
    /\ Len(plan) = 2
    /\ bids_executed = 1
    /\ EU # EU_built

\* The candidates the last gca run started from: gca keeps the unselected
\* bids of self.all_bids, and only sets flags afterwards.
LastRunCandidates == [i \in 1..Len(all_bids) |-> [all_bids[i] EXCEPT !.selected = FALSE]]

\* The states [all_bids, EU] of the loop of gca before its first iteration
\* and after each of n iterations, from the state st.
RECURSIVE RunTrace(_, _)
RunTrace(st, n) ==
    IF n = 0 THEN <<st>>
    ELSE <<st>> \o RunTrace(GcaLoop(st.all_bids, st.EU, 0, 1), n - 1)

\* The loop states of the last gca run.
GcaIterations ==
    RunTrace([all_bids |-> LastRunCandidates, EU |-> FTw(rv_plan)], budget)

NumSelected(st) == Len(Selected(st.all_bids))

\* C20: in a gca run, EU never decreases from one iteration to the next and
\* ends >= the reservation value; at most `deadline` bids are selected; and
\* an iteration selects a bid only if EU strictly increases, so a bid with
\* p = 0 is never selected.
C20_GcaEUMonotone ==
    JustBuilt =>
        \A tr \in {GcaIterations} :
            /\ tr[budget + 1] = [all_bids |-> all_bids, EU |-> EU]
            /\ \A i \in 1..budget :
                  /\ FLe(tr[i].EU, tr[i + 1].EU)
                  /\ NumSelected(tr[i + 1]) <= NumSelected(tr[i]) + 1
                  /\ NumSelected(tr[i + 1]) > NumSelected(tr[i])
                        => FLt(tr[i].EU, tr[i + 1].EU)
            /\ FLe(FTw(rv_plan), EU)
            /\ Len(plan) <= budget
            /\ \A k \in 1..Len(plan) : plan[k].p # 0

\* A run with budget 2 over three candidates, one of them with p = 0,
\* selected one bid and stopped early.
C20_Witness ==
    /\ JustBuilt
    /\ budget = 2
    /\ Len(all_bids) = 3
    /\ Len(plan) = 1
    /\ \E k \in 1..Len(all_bids) : all_bids[k].p = 0

=============================================================================
